---- MODULE Spec2Model ----
(***************************************************************************)
(* create_project.py: walk the working directory, collect the Swift source *)
(* files, derive an identifier for every element of the Xcode project and  *)
(* write Tonic.xcodeproj/project.pbxproj.                                  *)
(*                                                                         *)
(* A string is modelled as its sequence of tokens: "." and "/" are tokens  *)
(* of one character, every other token is a maximal run of characters that *)
(* holds neither of the two ("Tonic", "swift").  A file on disk is the     *)
(* sequence of its path components, each component a token sequence.       *)
(* Str renders a token sequence as the TLA+ string it stands for, and      *)
(* chars as its sequence of code points.                                   *)
(***************************************************************************)
EXTENDS Integers, Sequences, FiniteSets, TLC

VARIABLES
    disk,         \* the regular files of the tree, other than the output file
    projDir,      \* whether the directory ./Tonic.xcodeproj exists
    projFile,     \* content of Tonic.xcodeproj/project.pbxproj, or NoFile
    pc,           \* the position of the script
    run,          \* 1 for the first run, 2 for the run that follows it
    stack,        \* os.walk: the directories still to be visited, in order
    swift_files,  \* the list swift_files
    output,       \* the list output
    before,       \* projDir and projFile as the current run found them
    first         \* what the first run wrote, once it has finished

vars == << disk, projDir, projFile, pc, run, stack, swift_files, output, before, first >>

\* At most MaxFiles files are in the tree.
MaxFiles == 3

\* A failing f.write leaves at most MaxPartial pieces of the text in the file.
MaxPartial == 2

NoFile == << "no such file" >>

\* The candidate files of the tree.
Universe ==
    { << <<"Tonic">>, <<"App", ".", "swift">> >>,
      << <<".", "Tonic">>, <<"App", ".", "swift">> >>,
      << <<"Tonic">>, <<"Models">>, <<"User", ".", "swift">> >>,
      << <<"Tonic">>, <<"Views">>, <<"Main", ".", "swift">> >>,
      << <<"Tonic">>, <<"Models">>, <<"Views">>, <<"Card", ".", "swift">> >>,
      << <<"Tonic">>, <<"Utilities">>, <<"Log", ".", "swift">> >>,
      << <<"Tonic">>, <<"Services">>, <<"Api", ".", "swift">> >>,
      << <<"Tonic">>, <<"Design">>, <<"Theme", ".", "swift">> >>,
      << <<"Sources">>, <<"Lib", ".", "swift">> >>,
      << <<".", "Sources">>, <<"Lib", ".", "swift">> >>,
      << <<"Tonic">>, <<".", "build">>, <<"Gen", ".", "swift">> >>,
      << <<"Tonic", ".", "xcodeproj">>, <<"Old", ".", "swift">> >>,
      << <<".", "swiftpm">>, <<"Cfg", ".", "swift">> >>,
      << <<"Package", ".", "swift">> >>,
      << <<"Tonic">>, <<"Readme", ".", "md">> >>,
      << <<"Main", ".", "swift">> >> }

\* ---------------------------------------------------------------- strings

RECURSIVE Str(_)
Str(s) == IF s = << >> THEN "" ELSE Head(s) \o Str(Tail(s))

\* The code points of a token.
ord(tok) ==
    CASE tok = "." -> << 46 >>
      [] tok = "/" -> << 47 >>
      [] tok = "Api" -> << 65, 112, 105 >>
      [] tok = "App" -> << 65, 112, 112 >>
      [] tok = "Card" -> << 67, 97, 114, 100 >>
      [] tok = "Cfg" -> << 67, 102, 103 >>
      [] tok = "Design" -> << 68, 101, 115, 105, 103, 110 >>
      [] tok = "Gen" -> << 71, 101, 110 >>
      [] tok = "Lib" -> << 76, 105, 98 >>
      [] tok = "Log" -> << 76, 111, 103 >>
      [] tok = "Main" -> << 77, 97, 105, 110 >>
      [] tok = "Models" -> << 77, 111, 100, 101, 108, 115 >>
      [] tok = "Old" -> << 79, 108, 100 >>
      [] tok = "Package" -> << 80, 97, 99, 107, 97, 103, 101 >>
      [] tok = "Readme" -> << 82, 101, 97, 100, 109, 101 >>
      [] tok = "Services" -> << 83, 101, 114, 118, 105, 99, 101, 115 >>
      [] tok = "Sources" -> << 83, 111, 117, 114, 99, 101, 115 >>
      [] tok = "Theme" -> << 84, 104, 101, 109, 101 >>
      [] tok = "Tonic" -> << 84, 111, 110, 105, 99 >>
      [] tok = "User" -> << 85, 115, 101, 114 >>
      [] tok = "Utilities" -> << 85, 116, 105, 108, 105, 116, 105, 101, 115 >>
      [] tok = "Views" -> << 86, 105, 101, 119, 115 >>
      [] tok = "build" -> << 98, 117, 105, 108, 100 >>
      [] tok = "md" -> << 109, 100 >>
      [] tok = "pbxproj" -> << 112, 98, 120, 112, 114, 111, 106 >>
      [] tok = "project" -> << 112, 114, 111, 106, 101, 99, 116 >>
      [] tok = "swift" -> << 115, 119, 105, 102, 116 >>
      [] tok = "swiftpm" -> << 115, 119, 105, 102, 116, 112, 109 >>
      [] tok = "xcodeproj" -> << 120, 99, 111, 100, 101, 112, 114, 111, 106 >>

RECURSIVE chars(_)
chars(s) == IF s = << >> THEN << >> ELSE ord(Head(s)) \o chars(Tail(s))

RECURSIVE SeqLess(_, _)
SeqLess(a, b) ==
    IF b = << >> THEN FALSE
    ELSE IF a = << >> THEN TRUE
    ELSE IF Head(a) # Head(b) THEN Head(a) < Head(b)
    ELSE SeqLess(Tail(a), Tail(b))

\* Python's str.__lt__: lexicographic on code points.
str_lt(a, b) == SeqLess(chars(a), chars(b))

RECURSIVE Insert(_, _)
Insert(x, s) ==
    IF s = << >> THEN << x >>
    ELSE IF str_lt(x, Head(s)) THEN << x >> \o s
    ELSE << Head(s) >> \o Insert(x, Tail(s))

RECURSIVE SortAsc(_)
SortAsc(s) == IF s = << >> THEN << >> ELSE Insert(s[Len(s)], SortAsc(SubSeq(s, 1, Len(s) - 1)))

NoSort(s) == s

RECURSIVE InsertDesc(_, _)
InsertDesc(x, s) ==
    IF s = << >> THEN << x >>
    ELSE IF str_lt(Head(s), x) THEN << x >> \o s
    ELSE << Head(s) >> \o InsertDesc(x, Tail(s))

RECURSIVE SortDesc(_)
SortDesc(s) == IF s = << >> THEN << >> ELSE InsertDesc(s[Len(s)], SortDesc(SubSeq(s, 1, Len(s) - 1)))

\* swift_files.sort()
sort(s) == SortAsc(s)

\* s.lstrip('./'): drop every leading character that is '.' or '/'.
RECURSIVE lstrip(_)
lstrip(s) ==
    IF s # << >> /\ Head(s) \in {".", "/"} THEN lstrip(Tail(s)) ELSE s

\* f.endswith('.swift')
endswith_swift(f) == Len(f) >= 2 /\ f[Len(f) - 1] = "." /\ f[Len(f)] = "swift"

Package_swift == << "Package", ".", "swift" >>

\* os.path.join(root, f), root not ending in '/'
join(root, f) == root \o << "/" >> \o f

\* needle in s, for strings
contains(s, needle) ==
    \E i \in 1..(Len(s) - Len(needle) + 1) : SubSeq(s, i, i + Len(needle) - 1) = needle

\* s.split('/')
RECURSIVE split(_)
split(s) ==
    IF \A i \in 1..Len(s) : s[i] # "/" THEN << s >>
    ELSE LET k == CHOOSE i \in 1..Len(s) : s[i] = "/" /\ \A j \in 1..(i - 1) : s[j] # "/"
         IN  << SubSeq(s, 1, k - 1) >> \o split(SubSeq(s, k + 1, Len(s)))

\* os.path.basename(f)
basename(f) == LET p == split(f) IN p[Len(p)]

\* ------------------------------------------------------------ identifiers

hexdigits == << "0", "1", "2", "3", "4", "5", "6", "7", "8", "9", "a", "b", "c", "d", "e", "f" >>

\* str.upper() on one hexadecimal digit
upper(c) ==
    CASE c = "a" -> "A" [] c = "b" -> "B" [] c = "c" -> "C"
      [] c = "d" -> "D" [] c = "e" -> "E" [] c = "f" -> "F" [] OTHER -> c

\* hashlib.md5(salt.encode()).digest(), for the salts the model can form
md5(salt) ==
    CASE salt = "project" ->
           << 70, 248, 111, 170, 107, 191, 154, 201, 74, 126, 69, 149, 9, 162, 14, 208 >>
      [] salt = "mainGroup" ->
           << 141, 63, 198, 219, 93, 8, 39, 241, 104, 167, 50, 119, 75, 151, 0, 182 >>
      [] salt = "target" ->
           << 66, 174, 251, 174, 1, 210, 223, 217, 129, 247, 218, 125, 130, 61, 104, 158 >>
      [] salt = "products" ->
           << 134, 2, 76, 173, 30, 131, 16, 29, 151, 53, 157, 115, 81, 5, 17, 86 >>
      [] salt = "sources" ->
           << 242, 171, 95, 178, 24, 218, 139, 132, 98, 63, 69, 87, 154, 164, 186, 17 >>
      [] salt = "resources" ->
           << 85, 181, 88, 199, 239, 130, 14, 110, 0, 229, 153, 59, 158, 85, 217, 59 >>
      [] salt = "frameworks" ->
           << 79, 111, 92, 195, 252, 207, 115, 247, 90, 233, 204, 244, 173, 47, 77, 30 >>
      [] salt = "app" ->
           << 210, 165, 125, 193, 216, 131, 253, 33, 251, 153, 81, 105, 157, 247, 28, 199 >>
      [] salt = "configlist" ->
           << 238, 240, 180, 64, 57, 237, 182, 57, 2, 79, 60, 155, 140, 211, 139, 66 >>
      [] salt = "targetconfiglist" ->
           << 132, 189, 117, 222, 207, 66, 183, 69, 203, 79, 57, 170, 166, 231, 192, 86 >>
      [] salt = "tonicgroup" ->
           << 75, 81, 3, 240, 148, 70, 175, 124, 30, 35, 31, 19, 4, 175, 224, 192 >>
      [] salt = "models" ->
           << 172, 85, 82, 253, 106, 60, 8, 173, 34, 56, 126, 251, 228, 45, 19, 125 >>
      [] salt = "views" ->
           << 89, 161, 74, 87, 134, 254, 122, 16, 93, 120, 11, 177, 225, 226, 178, 27 >>
      [] salt = "utils" ->
           << 43, 53, 131, 230, 225, 119, 33, 197, 68, 150, 189, 4, 229, 122, 12, 21 >>
      [] salt = "services" ->
           << 16, 205, 57, 92, 247, 28, 24, 50, 140, 134, 60, 8, 231, 143, 63, 208 >>
      [] salt = "design" ->
           << 49, 193, 63, 71, 173, 135, 221, 123, 170, 45, 85, 138, 145, 224, 251, 185 >>
      [] salt = "debug_proj" ->
           << 113, 48, 127, 86, 254, 15, 5, 12, 191, 232, 189, 109, 209, 192, 169, 11 >>
      [] salt = "release_proj" ->
           << 212, 20, 127, 157, 235, 74, 216, 75, 243, 161, 71, 144, 246, 244, 177, 214 >>
      [] salt = "debug_target" ->
           << 104, 49, 5, 185, 101, 137, 63, 204, 100, 60, 78, 207, 151, 165, 234, 5 >>
      [] salt = "release_target" ->
           << 77, 199, 180, 121, 162, 145, 115, 103, 74, 253, 123, 172, 121, 233, 38, 168 >>
      [] salt = "file_Tonic/App.swift" ->
           << 238, 22, 110, 75, 91, 52, 193, 174, 60, 50, 55, 213, 114, 136, 109, 174 >>
      [] salt = "build_Tonic/App.swift" ->
           << 15, 205, 158, 89, 159, 16, 242, 177, 159, 23, 50, 94, 191, 183, 27, 32 >>
      [] salt = "file_./Tonic/App.swift" ->
           << 236, 157, 104, 165, 66, 227, 206, 191, 55, 121, 35, 228, 204, 2, 77, 244 >>
      [] salt = "build_./Tonic/App.swift" ->
           << 152, 55, 43, 110, 223, 16, 192, 161, 221, 113, 246, 187, 241, 229, 204, 215 >>
      [] salt = "file_./.Tonic/App.swift" ->
           << 63, 0, 9, 181, 55, 171, 220, 226, 211, 102, 211, 162, 63, 106, 197, 212 >>
      [] salt = "build_./.Tonic/App.swift" ->
           << 149, 35, 119, 187, 96, 210, 179, 142, 171, 156, 252, 174, 236, 24, 153, 128 >>
      [] salt = "file_.Tonic/App.swift" ->
           << 22, 22, 239, 236, 175, 162, 10, 9, 234, 53, 252, 177, 5, 160, 7, 194 >>
      [] salt = "build_.Tonic/App.swift" ->
           << 2, 130, 20, 179, 118, 87, 198, 199, 232, 123, 155, 168, 62, 202, 34, 4 >>
      [] salt = "file_Tonic/Models/User.swift" ->
           << 250, 53, 198, 96, 15, 181, 185, 115, 95, 215, 230, 9, 97, 147, 226, 137 >>
      [] salt = "build_Tonic/Models/User.swift" ->
           << 178, 17, 0, 175, 120, 20, 170, 211, 194, 131, 41, 52, 229, 23, 124, 94 >>
      [] salt = "file_./Tonic/Models/User.swift" ->
           << 25, 129, 235, 112, 202, 115, 219, 105, 116, 44, 154, 194, 224, 188, 101, 36 >>
      [] salt = "build_./Tonic/Models/User.swift" ->
           << 149, 240, 183, 38, 240, 173, 136, 95, 169, 150, 104, 31, 73, 112, 138, 194 >>
      [] salt = "file_Tonic/Views/Main.swift" ->
           << 21, 252, 160, 121, 67, 226, 58, 236, 191, 10, 41, 250, 112, 211, 134, 44 >>
      [] salt = "build_Tonic/Views/Main.swift" ->
           << 137, 167, 157, 103, 90, 210, 247, 142, 139, 93, 145, 168, 227, 255, 0, 163 >>
      [] salt = "file_./Tonic/Views/Main.swift" ->
           << 32, 239, 35, 254, 99, 234, 146, 170, 158, 117, 23, 79, 64, 172, 62, 133 >>
      [] salt = "build_./Tonic/Views/Main.swift" ->
           << 121, 105, 214, 55, 155, 213, 147, 158, 129, 113, 244, 14, 185, 6, 108, 159 >>
      [] salt = "file_Tonic/Models/Views/Card.swift" ->
           << 34, 78, 99, 128, 175, 175, 92, 245, 22, 161, 52, 228, 169, 152, 33, 209 >>
      [] salt = "build_Tonic/Models/Views/Card.swift" ->
           << 80, 41, 255, 95, 73, 66, 223, 21, 130, 251, 109, 110, 20, 143, 181, 174 >>
      [] salt = "file_./Tonic/Models/Views/Card.swift" ->
           << 252, 18, 128, 244, 102, 248, 253, 51, 139, 238, 158, 18, 6, 238, 237, 8 >>
      [] salt = "build_./Tonic/Models/Views/Card.swift" ->
           << 169, 182, 155, 170, 27, 74, 248, 188, 219, 248, 52, 17, 82, 134, 213, 205 >>
      [] salt = "file_Tonic/Utilities/Log.swift" ->
           << 35, 160, 154, 27, 168, 139, 82, 106, 93, 199, 114, 58, 103, 162, 105, 72 >>
      [] salt = "build_Tonic/Utilities/Log.swift" ->
           << 60, 209, 136, 214, 24, 163, 233, 14, 230, 207, 224, 216, 188, 248, 221, 22 >>
      [] salt = "file_./Tonic/Utilities/Log.swift" ->
           << 46, 88, 145, 238, 43, 237, 47, 153, 150, 28, 175, 184, 50, 107, 5, 43 >>
      [] salt = "build_./Tonic/Utilities/Log.swift" ->
           << 107, 141, 136, 244, 196, 215, 96, 206, 97, 182, 4, 129, 213, 96, 119, 12 >>
      [] salt = "file_Tonic/Services/Api.swift" ->
           << 108, 227, 241, 133, 96, 152, 120, 213, 108, 202, 204, 178, 183, 24, 230, 231 >>
      [] salt = "build_Tonic/Services/Api.swift" ->
           << 182, 198, 49, 178, 134, 112, 148, 214, 145, 126, 176, 160, 153, 168, 41, 243 >>
      [] salt = "file_./Tonic/Services/Api.swift" ->
           << 194, 228, 170, 171, 204, 149, 17, 206, 107, 81, 194, 31, 42, 222, 107, 63 >>
      [] salt = "build_./Tonic/Services/Api.swift" ->
           << 175, 19, 244, 50, 243, 31, 96, 195, 229, 90, 55, 123, 60, 155, 84, 188 >>
      [] salt = "file_Tonic/Design/Theme.swift" ->
           << 149, 126, 80, 208, 102, 139, 167, 236, 144, 77, 108, 160, 64, 218, 178, 186 >>
      [] salt = "build_Tonic/Design/Theme.swift" ->
           << 57, 155, 129, 236, 78, 1, 33, 68, 36, 192, 199, 165, 225, 7, 6, 92 >>
      [] salt = "file_./Tonic/Design/Theme.swift" ->
           << 35, 119, 41, 63, 201, 220, 217, 227, 51, 201, 60, 29, 108, 65, 202, 83 >>
      [] salt = "build_./Tonic/Design/Theme.swift" ->
           << 254, 211, 36, 169, 181, 176, 138, 192, 4, 96, 157, 233, 91, 250, 181, 243 >>
      [] salt = "file_Sources/Lib.swift" ->
           << 229, 30, 64, 128, 17, 176, 105, 223, 253, 26, 194, 42, 56, 6, 18, 165 >>
      [] salt = "build_Sources/Lib.swift" ->
           << 142, 129, 35, 248, 119, 119, 83, 66, 44, 188, 220, 167, 86, 119, 46, 244 >>
      [] salt = "file_./Sources/Lib.swift" ->
           << 21, 227, 40, 166, 134, 33, 158, 123, 26, 9, 221, 109, 215, 94, 6, 72 >>
      [] salt = "build_./Sources/Lib.swift" ->
           << 211, 99, 201, 94, 57, 221, 59, 6, 185, 124, 19, 64, 61, 197, 155, 5 >>
      [] salt = "file_./.Sources/Lib.swift" ->
           << 245, 134, 25, 253, 43, 22, 214, 238, 161, 141, 254, 21, 159, 156, 22, 153 >>
      [] salt = "build_./.Sources/Lib.swift" ->
           << 90, 103, 112, 42, 221, 77, 3, 201, 4, 245, 54, 236, 105, 55, 81, 107 >>
      [] salt = "file_.Sources/Lib.swift" ->
           << 175, 151, 173, 99, 100, 60, 181, 111, 106, 114, 53, 150, 79, 209, 97, 171 >>
      [] salt = "build_.Sources/Lib.swift" ->
           << 224, 0, 19, 175, 83, 234, 102, 157, 90, 176, 81, 123, 237, 248, 107, 42 >>
      [] salt = "file_Tonic/.build/Gen.swift" ->
           << 119, 157, 136, 16, 91, 177, 157, 88, 121, 115, 235, 110, 2, 210, 213, 46 >>
      [] salt = "build_Tonic/.build/Gen.swift" ->
           << 189, 124, 150, 148, 97, 137, 246, 59, 90, 136, 210, 61, 89, 45, 194, 147 >>
      [] salt = "file_./Tonic/.build/Gen.swift" ->
           << 100, 33, 188, 204, 247, 18, 206, 151, 184, 159, 148, 253, 182, 8, 135, 60 >>
      [] salt = "build_./Tonic/.build/Gen.swift" ->
           << 0, 226, 20, 203, 5, 219, 192, 102, 19, 91, 48, 240, 3, 59, 49, 241 >>
      [] salt = "file_Tonic.xcodeproj/Old.swift" ->
           << 69, 44, 167, 34, 128, 238, 229, 153, 53, 248, 151, 86, 223, 42, 61, 76 >>
      [] salt = "build_Tonic.xcodeproj/Old.swift" ->
           << 50, 156, 17, 191, 104, 115, 30, 10, 208, 147, 34, 86, 201, 147, 34, 140 >>
      [] salt = "file_./Tonic.xcodeproj/Old.swift" ->
           << 148, 221, 132, 156, 253, 218, 225, 132, 174, 126, 63, 169, 31, 10, 51, 36 >>
      [] salt = "build_./Tonic.xcodeproj/Old.swift" ->
           << 177, 123, 233, 198, 113, 50, 10, 19, 12, 112, 108, 242, 135, 70, 234, 117 >>
      [] salt = "file_swiftpm/Cfg.swift" ->
           << 221, 109, 230, 75, 190, 115, 243, 114, 121, 28, 25, 121, 99, 34, 163, 9 >>
      [] salt = "build_swiftpm/Cfg.swift" ->
           << 53, 107, 58, 11, 74, 225, 70, 236, 210, 80, 245, 81, 247, 178, 241, 205 >>
      [] salt = "file_./.swiftpm/Cfg.swift" ->
           << 202, 182, 83, 155, 248, 145, 109, 10, 110, 31, 214, 255, 200, 161, 222, 186 >>
      [] salt = "build_./.swiftpm/Cfg.swift" ->
           << 227, 142, 109, 57, 112, 154, 85, 200, 195, 194, 64, 76, 223, 25, 136, 84 >>
      [] salt = "file_.swiftpm/Cfg.swift" ->
           << 243, 174, 170, 57, 228, 206, 215, 39, 50, 11, 249, 249, 123, 150, 80, 230 >>
      [] salt = "build_.swiftpm/Cfg.swift" ->
           << 88, 118, 245, 147, 252, 202, 185, 144, 98, 246, 33, 14, 221, 166, 126, 228 >>
      [] salt = "file_Package.swift" ->
           << 122, 85, 253, 88, 83, 185, 6, 179, 198, 5, 226, 221, 3, 114, 0, 254 >>
      [] salt = "build_Package.swift" ->
           << 21, 235, 255, 174, 73, 187, 131, 195, 51, 236, 222, 11, 127, 145, 241, 146 >>
      [] salt = "file_./Package.swift" ->
           << 77, 148, 246, 143, 179, 164, 14, 176, 200, 116, 93, 14, 77, 7, 169, 47 >>
      [] salt = "build_./Package.swift" ->
           << 69, 45, 82, 201, 34, 235, 117, 149, 7, 199, 133, 246, 150, 110, 75, 14 >>
      [] salt = "file_Tonic/Readme.md" ->
           << 230, 124, 231, 26, 96, 157, 153, 55, 65, 36, 30, 238, 80, 162, 52, 173 >>
      [] salt = "build_Tonic/Readme.md" ->
           << 208, 135, 62, 9, 156, 54, 72, 250, 57, 251, 212, 118, 38, 86, 226, 221 >>
      [] salt = "file_./Tonic/Readme.md" ->
           << 113, 100, 237, 214, 159, 80, 61, 184, 128, 236, 164, 94, 202, 227, 45, 156 >>
      [] salt = "build_./Tonic/Readme.md" ->
           << 156, 83, 184, 28, 101, 146, 14, 243, 79, 132, 52, 148, 51, 2, 14, 170 >>
      [] salt = "file_Main.swift" ->
           << 215, 72, 215, 134, 33, 46, 31, 14, 176, 76, 61, 183, 250, 255, 210, 144 >>
      [] salt = "build_Main.swift" ->
           << 138, 133, 163, 50, 29, 175, 172, 93, 2, 150, 247, 182, 136, 6, 1, 8 >>
      [] salt = "file_./Main.swift" ->
           << 231, 209, 202, 78, 57, 71, 27, 161, 161, 238, 235, 82, 253, 160, 229, 229 >>
      [] salt = "build_./Main.swift" ->
           << 214, 55, 23, 130, 181, 103, 126, 166, 175, 239, 203, 230, 255, 22, 223, 178 >>
      [] salt = "file_Tonic.xcodeproj/project.pbxproj" ->
           << 78, 217, 56, 210, 183, 32, 67, 105, 124, 26, 202, 184, 82, 169, 82, 51 >>
      [] salt = "build_Tonic.xcodeproj/project.pbxproj" ->
           << 75, 243, 63, 200, 38, 96, 121, 169, 22, 219, 39, 96, 152, 65, 17, 72 >>
      [] salt = "file_./Tonic.xcodeproj/project.pbxproj" ->
           << 180, 222, 241, 111, 51, 85, 234, 37, 61, 93, 145, 173, 82, 194, 144, 64 >>
      [] salt = "build_./Tonic.xcodeproj/project.pbxproj" ->
           << 71, 239, 161, 253, 164, 212, 16, 234, 239, 156, 113, 23, 154, 228, 246, 205 >>

\* hashlib.md5(salt.encode()).hexdigest(): two lower-case digits per byte
hexdigest(salt) ==
    LET d == md5(salt)
    IN  [i \in 1..(2 * Len(d)) |->
            IF i % 2 = 1 THEN hexdigits[(d[(i + 1) \div 2] \div 16) + 1]
            ELSE hexdigits[(d[i \div 2] % 16) + 1]]

\* h[:24].upper()
generate_uuid(salt) ==
    LET h == hexdigest(salt)
    IN  Str([i \in 1..24 |-> upper(h[i])])

project_id == generate_uuid("project")
main_group_id == generate_uuid("mainGroup")
target_id == generate_uuid("target")
products_group_id == generate_uuid("products")
sources_phase_id == generate_uuid("sources")
resources_phase_id == generate_uuid("resources")
frameworks_phase_id == generate_uuid("frameworks")
app_ref_id == generate_uuid("app")
config_list_id == generate_uuid("configlist")
target_config_list_id == generate_uuid("targetconfiglist")

\* file_refs[f] and build_files[f]: dictionaries keyed by the path, so a path
\* collected twice has one identifier of each kind.
file_refs(f) == generate_uuid("file_" \o Str(f))
build_files(f) == generate_uuid("build_" \o Str(f))

models_group == generate_uuid("models")
views_group == generate_uuid("views")
utils_group == generate_uuid("utils")
services_group == generate_uuid("services")
design_group == generate_uuid("design")

\* ------------------------------------------------------------- manifest

Header ==
    << "// !$*UTF8*$!",
       "{",
       "\tarchiveVersion = 1;",
       "\tclasses = {",
       "\t};",
       "\tobjectVersion = 56;",
       "\tobjects = {" >>

PBXBuildFileLine(f) ==
    "\t\t" \o build_files(f) \o " /* " \o Str(basename(f)) \o " in Sources */ = {isa = PBXBuildFile; fileRef = " \o file_refs(f) \o " /* " \o Str(basename(f)) \o " */; };"

PBXBuildFileSection(files) ==
    << "/* Begin PBXBuildFile section */" >>
    \o [i \in 1..Len(files) |-> PBXBuildFileLine(files[i])]
    \o << "/* End PBXBuildFile section */" >>

PBXFileReferenceLine(f) ==
    "\t\t" \o file_refs(f) \o " /* " \o Str(basename(f)) \o " */ = {isa = PBXFileReference; lastKnownFileType = sourcecode.swift; path = \"" \o Str(basename(f)) \o "\"; sourceTree = \"<group>\"; };"

PBXFileReferenceSection(files) ==
    << "/* Begin PBXFileReference section */",
       "\t\t" \o app_ref_id \o " /* Tonic.app */ = {isa = PBXFileReference; explicitFileType = wrapper.application; includeInIndex = 0; path = Tonic.app; sourceTree = BUILT_PRODUCTS_DIR; };" >>
    \o [i \in 1..Len(files) |-> PBXFileReferenceLine(files[i])]
    \o << "/* End PBXFileReference section */" >>

PBXFrameworksBuildPhaseSection ==
    << "/* Begin PBXFrameworksBuildPhase section */",
       "\t\t" \o frameworks_phase_id \o " /* Frameworks */ = {",
       "\t\t\tisa = PBXFrameworksBuildPhase;",
       "\t\t\tbuildActionMask = 2147483647;",
       "\t\t\tfiles = (",
       "\t\t\t);",
       "\t\t\trunOnlyForDeploymentPostprocessing = 0;",
       "\t\t};",
       "/* End PBXFrameworksBuildPhase section */" >>

MainAndProductsGroups ==
    << "/* Begin PBXGroup section */",
       "\t\t" \o main_group_id \o " = {",
       "\t\t\tisa = PBXGroup;",
       "\t\t\tchildren = (",
       "\t\t\t\t" \o generate_uuid("tonicgroup") \o " /* Tonic */,",
       "\t\t\t\t" \o products_group_id \o " /* Products */,",
       "\t\t\t);",
       "\t\t\tsourceTree = \"<group>\";",
       "\t\t};",
       "\t\t" \o products_group_id \o " /* Products */ = {",
       "\t\t\tisa = PBXGroup;",
       "\t\t\tchildren = (",
       "\t\t\t\t" \o app_ref_id \o " /* Tonic.app */,",
       "\t\t\t);",
       "\t\t\tname = Products;",
       "\t\t\tsourceTree = \"<group>\";",
       "\t\t};" >>

\* The condition of the top-level loop: parts = f.split('/')
is_top_level(f) == LET parts == split(f) IN Len(parts) = 2 /\ parts[1] = << "Tonic" >>

TopLevelLine(f) ==
    LET fname == split(f)[2] IN "\t\t\t\t" \o file_refs(f) \o " /* " \o Str(fname) \o " */,"

TonicGroup(files) ==
    << "\t\t" \o generate_uuid("tonicgroup") \o " /* Tonic */ = {",
       "\t\t\tisa = PBXGroup;",
       "\t\t\tchildren = (",
       "\t\t\t\t" \o models_group \o " /* Models */,",
       "\t\t\t\t" \o views_group \o " /* Views */,",
       "\t\t\t\t" \o utils_group \o " /* Utilities */,",
       "\t\t\t\t" \o services_group \o " /* Services */,",
       "\t\t\t\t" \o design_group \o " /* Design */," >>
    \o (LET sel == SelectSeq(files, is_top_level) IN [i \in 1..Len(sel) |-> TopLevelLine(sel[i])])
    \o << "\t\t\t);",
       "\t\t\tpath = Tonic;",
       "\t\t\tsourceTree = \"<group>\";",
       "\t\t};" >>

ChildLine(f) ==
    "\t\t\t\t" \o file_refs(f) \o " /* " \o Str(basename(f)) \o " */,"

in_Models(f) == contains(f, << "/", "Models", "/" >>)

ModelsGroup(files) ==
    << "\t\t" \o models_group \o " /* Models */ = {",
       "\t\t\tisa = PBXGroup;",
       "\t\t\tchildren = (" >>
    \o (LET sel == SelectSeq(files, in_Models) IN [i \in 1..Len(sel) |-> ChildLine(sel[i])])
    \o << "\t\t\t);",
       "\t\t\tpath = Models;",
       "\t\t\tsourceTree = \"<group>\";",
       "\t\t};" >>

in_Views(f) == contains(f, << "/", "Views", "/" >>)

ViewsGroup(files) ==
    << "\t\t" \o views_group \o " /* Views */ = {",
       "\t\t\tisa = PBXGroup;",
       "\t\t\tchildren = (" >>
    \o (LET sel == SelectSeq(files, in_Views) IN [i \in 1..Len(sel) |-> ChildLine(sel[i])])
    \o << "\t\t\t);",
       "\t\t\tpath = Views;",
       "\t\t\tsourceTree = \"<group>\";",
       "\t\t};" >>

in_Utilities(f) == contains(f, << "/", "Utilities", "/" >>)

UtilitiesGroup(files) ==
    << "\t\t" \o utils_group \o " /* Utilities */ = {",
       "\t\t\tisa = PBXGroup;",
       "\t\t\tchildren = (" >>
    \o (LET sel == SelectSeq(files, in_Utilities) IN [i \in 1..Len(sel) |-> ChildLine(sel[i])])
    \o << "\t\t\t);",
       "\t\t\tpath = Utilities;",
       "\t\t\tsourceTree = \"<group>\";",
       "\t\t};" >>

in_Services(f) == contains(f, << "/", "Services", "/" >>)

ServicesGroup(files) ==
    << "\t\t" \o services_group \o " /* Services */ = {",
       "\t\t\tisa = PBXGroup;",
       "\t\t\tchildren = (" >>
    \o (LET sel == SelectSeq(files, in_Services) IN [i \in 1..Len(sel) |-> ChildLine(sel[i])])
    \o << "\t\t\t);",
       "\t\t\tpath = Services;",
       "\t\t\tsourceTree = \"<group>\";",
       "\t\t};" >>

in_Design(f) == contains(f, << "/", "Design", "/" >>)

DesignGroup(files) ==
    << "\t\t" \o design_group \o " /* Design */ = {",
       "\t\t\tisa = PBXGroup;",
       "\t\t\tchildren = (" >>
    \o (LET sel == SelectSeq(files, in_Design) IN [i \in 1..Len(sel) |-> ChildLine(sel[i])])
    \o << "\t\t\t);",
       "\t\t\tpath = Design;",
       "\t\t\tsourceTree = \"<group>\";",
       "\t\t};" >>

PBXGroupSection(files) ==
    MainAndProductsGroups \o TonicGroup(files) \o ModelsGroup(files) \o ViewsGroup(files)
    \o UtilitiesGroup(files) \o ServicesGroup(files) \o DesignGroup(files)
    \o << "/* End PBXGroup section */" >>

PBXNativeTargetSection ==
    << "/* Begin PBXNativeTarget section */",
       "\t\t" \o target_id \o " /* Tonic */ = {",
       "\t\t\tisa = PBXNativeTarget;",
       "\t\t\tbuildConfigurationList = " \o target_config_list_id \o " /* Build configuration list for PBXNativeTarget \"Tonic\" */;",
       "\t\t\tbuildPhases = (",
       "\t\t\t\t" \o sources_phase_id \o " /* Sources */,",
       "\t\t\t\t" \o frameworks_phase_id \o " /* Frameworks */,",
       "\t\t\t\t" \o resources_phase_id \o " /* Resources */,",
       "\t\t\t);",
       "\t\t\tbuildRules = (",
       "\t\t\t);",
       "\t\t\tdependencies = (",
       "\t\t\t);",
       "\t\t\tname = Tonic;",
       "\t\t\tproductName = Tonic;",
       "\t\t\tproductReference = " \o app_ref_id \o " /* Tonic.app */;",
       "\t\t\tproductType = \"com.apple.product-type.application\";",
       "\t\t};",
       "/* End PBXNativeTarget section */" >>

PBXProjectSection ==
    << "/* Begin PBXProject section */",
       "\t\t" \o project_id \o " /* Project object */ = {",
       "\t\t\tisa = PBXProject;",
       "\t\t\tattributes = {",
       "\t\t\t\tBuildIndependentTargetsInParallel = 1;",
       "\t\t\t\tLastSwiftUpdateCheck = 1500;",
       "\t\t\t\tLastUpgradeCheck = 1500;",
       "\t\t\t\tTargetAttributes = {",
       "\t\t\t\t\t" \o target_id \o " = {",
       "\t\t\t\t\t\tCreatedOnToolsVersion = 15.0;",
       "\t\t\t\t\t\tSystemCapabilities = {",
       "\t\t\t\t\t\t\tcom.apple.Sandbox = {",
       "\t\t\t\t\t\t\t\tenabled = 0;",
       "\t\t\t\t\t\t\t};",
       "\t\t\t\t\t\t};",
       "\t\t\t\t\t};",
       "\t\t\t\t};",
       "\t\t\t};",
       "\t\t\tbuildConfigurationList = " \o config_list_id \o " /* Build configuration list for PBXProject \"Tonic\" */;",
       "\t\t\tcompatibilityVersion = \"Xcode 14.0\";",
       "\t\t\tdevelopmentRegion = en;",
       "\t\t\thasScannedForEncodings = 0;",
       "\t\t\tknownRegions = (",
       "\t\t\t\ten,",
       "\t\t\t\tBase,",
       "\t\t\t);",
       "\t\t\tmainGroup = " \o main_group_id \o ";",
       "\t\t\tproductRefGroup = " \o products_group_id \o ";",
       "\t\t\tprojectDirPath = \"\";",
       "\t\t\tprojectRoot = \"\";",
       "\t\t\ttargets = (",
       "\t\t\t\t" \o target_id \o " /* Tonic */,",
       "\t\t\t);",
       "\t\t};",
       "/* End PBXProject section */" >>

PBXResourcesBuildPhaseSection ==
    << "/* Begin PBXResourcesBuildPhase section */",
       "\t\t" \o resources_phase_id \o " /* Resources */ = {",
       "\t\t\tisa = PBXResourcesBuildPhase;",
       "\t\t\tbuildActionMask = 2147483647;",
       "\t\t\tfiles = (",
       "\t\t\t);",
       "\t\t\trunOnlyForDeploymentPostprocessing = 0;",
       "\t\t};",
       "/* End PBXResourcesBuildPhase section */" >>

SourcesLine(f) ==
    "\t\t\t\t" \o build_files(f) \o " /* " \o Str(basename(f)) \o " in Sources */,"

SourcesPhaseOpen ==
    << "/* Begin PBXSourcesBuildPhase section */",
       "\t\t" \o sources_phase_id \o " /* Sources */ = {",
       "\t\t\tisa = PBXSourcesBuildPhase;",
       "\t\t\tbuildActionMask = 2147483647;",
       "\t\t\tfiles = (" >>

SourcesPhaseClose ==
    << "\t\t\t);",
       "\t\t\trunOnlyForDeploymentPostprocessing = 0;",
       "\t\t};",
       "/* End PBXSourcesBuildPhase section */" >>

\* The section left out when there is nothing to compile.
SourcesPhaseSkippedWhenEmpty(files) ==
    IF files = << >> THEN << >>
    ELSE SourcesPhaseOpen \o [i \in 1..Len(files) |-> SourcesLine(files[i])] \o SourcesPhaseClose

PBXSourcesBuildPhaseSection(files) ==
    SourcesPhaseOpen \o [i \in 1..Len(files) |-> SourcesLine(files[i])] \o SourcesPhaseClose

DebugProjectConfiguration ==
    << "\t\t" \o generate_uuid("debug_proj") \o " /* Debug */ = {",
       "\t\t\tisa = XCBuildConfiguration;",
       "\t\t\tbuildSettings = {",
       "\t\t\t\tALWAYS_SEARCH_USER_PATHS = NO;",
       "\t\t\t\tASSETCATALOG_COMPILER_GENERATE_SWIFT_ASSET_SYMBOL_EXTENSIONS = YES;",
       "\t\t\t\tCLANG_ANALYZER_NONNULL = YES;",
       "\t\t\t\tCLANG_CXX_LANGUAGE_STANDARD = \"gnu++20\";",
       "\t\t\t\tCLANG_ENABLE_MODULES = YES;",
       "\t\t\t\tCLANG_ENABLE_OBJC_ARC = YES;",
       "\t\t\t\tCLANG_WARN_UNGUARDED_AVAILABILITY = YES_AGGRESSIVE;",
       "\t\t\t\tCOPY_PHASE_STRIP = NO;",
       "\t\t\t\tDEBUG_INFORMATION_FORMAT = dwarf;",
       "\t\t\t\tENABLE_STRICT_OBJC_MSGSEND = YES;",
       "\t\t\t\tENABLE_TESTABILITY = YES;",
       "\t\t\t\tGCC_C_LANGUAGE_STANDARD = gnu17;",
       "\t\t\t\tGCC_NO_COMMON_BLOCKS = YES;",
       "\t\t\t\tGCC_WARN_64_TO_32_BIT_CONVERSION = YES;",
       "\t\t\t\tGCC_WARN_ABOUT_RETURN_TYPE = YES_ERROR;",
       "\t\t\t\tGCC_WARN_UNDECLARED_SELECTOR = YES;",
       "\t\t\t\tMACOSX_DEPLOYMENT_TARGET = 14.0;",
       "\t\t\t\tMTL_ENABLE_DEBUG_INFO = INCLUDE_SOURCE;",
       "\t\t\t\tONLY_ACTIVE_ARCH = YES;",
       "\t\t\t\tSDKROOT = macosx;",
       "\t\t\t\tSWIFT_ACTIVE_COMPILATION_CONDITIONS = \"DEBUG $(inherited)\";",
       "\t\t\t\tSWIFT_OPTIMIZATION_LEVEL = \"-Onone\";",
       "\t\t\t};",
       "\t\t\tname = Debug;",
       "\t\t};" >>

ReleaseProjectConfiguration ==
    << "\t\t" \o generate_uuid("release_proj") \o " /* Release */ = {",
       "\t\t\tisa = XCBuildConfiguration;",
       "\t\t\tbuildSettings = {",
       "\t\t\t\tALWAYS_SEARCH_USER_PATHS = NO;",
       "\t\t\t\tASSETCATALOG_COMPILER_GENERATE_SWIFT_ASSET_SYMBOL_EXTENSIONS = YES;",
       "\t\t\t\tCLANG_ANALYZER_NONNULL = YES;",
       "\t\t\t\tCLANG_CXX_LANGUAGE_STANDARD = \"gnu++20\";",
       "\t\t\t\tCLANG_ENABLE_MODULES = YES;",
       "\t\t\t\tCLANG_ENABLE_OBJC_ARC = YES;",
       "\t\t\t\tCLANG_WARN_UNGUARDED_AVAILABILITY = YES_AGGRESSIVE;",
       "\t\t\t\tCOPY_PHASE_STRIP = NO;",
       "\t\t\t\tDEBUG_INFORMATION_FORMAT = \"dwarf-with-dsym\";",
       "\t\t\t\tENABLE_NS_ASSERTIONS = NO;",
       "\t\t\t\tENABLE_STRICT_OBJC_MSGSEND = YES;",
       "\t\t\t\tGCC_C_LANGUAGE_STANDARD = gnu17;",
       "\t\t\t\tGCC_NO_COMMON_BLOCKS = YES;",
       "\t\t\t\tGCC_WARN_64_TO_32_BIT_CONVERSION = YES;",
       "\t\t\t\tGCC_WARN_ABOUT_RETURN_TYPE = YES_ERROR;",
       "\t\t\t\tGCC_WARN_UNDECLARED_SELECTOR = YES;",
       "\t\t\t\tMACOSX_DEPLOYMENT_TARGET = 14.0;",
       "\t\t\t\tMTL_ENABLE_DEBUG_INFO = NO;",
       "\t\t\t\tSDKROOT = macosx;",
       "\t\t\t\tSWIFT_COMPILATION_MODE = wholemodule;",
       "\t\t\t};",
       "\t\t\tname = Release;",
       "\t\t};" >>

DebugTargetConfiguration ==
    << "\t\t" \o generate_uuid("debug_target") \o " /* Debug */ = {",
       "\t\t\tisa = XCBuildConfiguration;",
       "\t\t\tbuildSettings = {",
       "\t\t\t\tASSETCATALOG_COMPILER_APPICON_NAME = AppIcon;",
       "\t\t\t\tASSETCATALOG_COMPILER_GLOBAL_ACCENT_COLOR_NAME = AccentColor;",
       "\t\t\t\tCODE_SIGN_ENTITLEMENTS = Tonic/Tonic.entitlements;",
       "\t\t\t\tCODE_SIGN_STYLE = Automatic;",
       "\t\t\t\tCOMBINE_HIDPI_IMAGES = YES;",
       "\t\t\t\tCURRENT_PROJECT_VERSION = 1;",
       "\t\t\t\tDEVELOPMENT_TEAM = \"\";",
       "\t\t\t\tENABLE_HARDENED_RUNTIME = NO;",
       "\t\t\t\tENABLE_PREVIEWS = YES;",
       "\t\t\t\tGENERATE_INFOPLIST_FILE = YES;",
       "\t\t\t\tINFOPLIST_KEY_CFBundleDisplayName = \"Tonic for Mac\";",
       "\t\t\t\tINFOPLIST_KEY_LSApplicationCategoryType = \"public.app-category.utilities\";",
       "\t\t\t\tINFOPLIST_KEY_NSHumanReadableCopyright = \"\";",
       "\t\t\t\tLD_RUNPATH_SEARCH_PATHS = (",
       "\t\t\t\t\t\"$(inherited)\",",
       "\t\t\t\t\t\"@executable_path/../Frameworks\",",
       "\t\t\t\t);",
       "\t\t\t\tMACOSX_DEPLOYMENT_TARGET = 14.0;",
       "\t\t\t\tMARKETING_VERSION = 0.1.0;",
       "\t\t\t\tPRODUCT_BUNDLE_IDENTIFIER = com.tonicformac.app;",
       "\t\t\t\tPRODUCT_NAME = \"$(TARGET_NAME)\";",
       "\t\t\t\tSDKROOT = macosx;",
       "\t\t\t\tSWIFT_EMIT_LOC_STRINGS = YES;",
       "\t\t\t\tSWIFT_VERSION = 5.0;",
       "\t\t\t};",
       "\t\t\tname = Debug;",
       "\t\t};" >>

ReleaseTargetConfiguration ==
    << "\t\t" \o generate_uuid("release_target") \o " /* Release */ = {",
       "\t\t\tisa = XCBuildConfiguration;",
       "\t\t\tbuildSettings = {",
       "\t\t\t\tASSETCATALOG_COMPILER_APPICON_NAME = AppIcon;",
       "\t\t\t\tASSETCATALOG_COMPILER_GLOBAL_ACCENT_COLOR_NAME = AccentColor;",
       "\t\t\t\tCODE_SIGN_ENTITLEMENTS = Tonic/Tonic.entitlements;",
       "\t\t\t\tCODE_SIGN_STYLE = Automatic;",
       "\t\t\t\tCOMBINE_HIDPI_IMAGES = YES;",
       "\t\t\t\tCURRENT_PROJECT_VERSION = 1;",
       "\t\t\t\tDEVELOPMENT_TEAM = \"\";",
       "\t\t\t\tENABLE_HARDENED_RUNTIME = NO;",
       "\t\t\t\tENABLE_PREVIEWS = YES;",
       "\t\t\t\tGENERATE_INFOPLIST_FILE = YES;",
       "\t\t\t\tINFOPLIST_KEY_CFBundleDisplayName = \"Tonic for Mac\";",
       "\t\t\t\tINFOPLIST_KEY_LSApplicationCategoryType = \"public.app-category.utilities\";",
       "\t\t\t\tINFOPLIST_KEY_NSHumanReadableCopyright = \"\";",
       "\t\t\t\tLD_RUNPATH_SEARCH_PATHS = (",
       "\t\t\t\t\t\"$(inherited)\",",
       "\t\t\t\t\t\"@executable_path/../Frameworks\",",
       "\t\t\t\t);",
       "\t\t\t\tMACOSX_DEPLOYMENT_TARGET = 14.0;",
       "\t\t\t\tMARKETING_VERSION = 0.1.0;",
       "\t\t\t\tPRODUCT_BUNDLE_IDENTIFIER = com.tonicformac.app;",
       "\t\t\t\tPRODUCT_NAME = \"$(TARGET_NAME)\";",
       "\t\t\t\tSDKROOT = macosx;",
       "\t\t\t\tSWIFT_EMIT_LOC_STRINGS = YES;",
       "\t\t\t\tSWIFT_VERSION = 5.0;",
       "\t\t\t};",
       "\t\t\tname = Release;",
       "\t\t};" >>

XCBuildConfigurationSection ==
    << "/* Begin XCBuildConfiguration section */" >>
    \o DebugProjectConfiguration \o ReleaseProjectConfiguration
    \o DebugTargetConfiguration \o ReleaseTargetConfiguration
    \o << "/* End XCBuildConfiguration section */" >>

ProjectConfigurationList ==
    << "\t\t" \o config_list_id \o " /* Build configuration list for PBXProject \"Tonic\" */ = {",
       "\t\t\tisa = XCConfigurationList;",
       "\t\t\tbuildConfigurations = (",
       "\t\t\t\t" \o generate_uuid("debug_proj") \o " /* Debug */,",
       "\t\t\t\t" \o generate_uuid("release_proj") \o " /* Release */,",
       "\t\t\t);",
       "\t\t\tdefaultConfigurationIsVisible = 0;",
       "\t\t\tdefaultConfigurationName = Release;",
       "\t\t};" >>

\* The target's list naming the project's two configurations.
TargetConfigurationListProjectSalts ==
    << "\t\t" \o target_config_list_id \o " /* Build configuration list for PBXNativeTarget \"Tonic\" */ = {",
       "\t\t\tisa = XCConfigurationList;",
       "\t\t\tbuildConfigurations = (",
       "\t\t\t\t" \o generate_uuid("debug_proj") \o " /* Debug */,",
       "\t\t\t\t" \o generate_uuid("release_proj") \o " /* Release */,",
       "\t\t\t);",
       "\t\t\tdefaultConfigurationIsVisible = 0;",
       "\t\t\tdefaultConfigurationName = Release;",
       "\t\t};" >>

TargetConfigurationList ==
    << "\t\t" \o target_config_list_id \o " /* Build configuration list for PBXNativeTarget \"Tonic\" */ = {",
       "\t\t\tisa = XCConfigurationList;",
       "\t\t\tbuildConfigurations = (",
       "\t\t\t\t" \o generate_uuid("debug_target") \o " /* Debug */,",
       "\t\t\t\t" \o generate_uuid("release_target") \o " /* Release */,",
       "\t\t\t);",
       "\t\t\tdefaultConfigurationIsVisible = 0;",
       "\t\t\tdefaultConfigurationName = Release;",
       "\t\t};" >>

XCConfigurationListSection ==
    << "/* Begin XCConfigurationList section */" >>
    \o ProjectConfigurationList \o TargetConfigurationList
    \o << "/* End XCConfigurationList section */" >>

Footer ==
    << "\t};",
       "\trootObject = " \o project_id \o " /* Project object */;",
       "}" >>

Manifest(files) ==
    Header \o PBXBuildFileSection(files) \o PBXFileReferenceSection(files)
    \o PBXFrameworksBuildPhaseSection \o PBXGroupSection(files)
    \o PBXNativeTargetSection \o PBXProjectSection
    \o PBXResourcesBuildPhaseSection \o PBXSourcesBuildPhaseSection(files)
    \o XCBuildConfigurationSection \o XCConfigurationListSection \o Footer

\* ------------------------------------------------------------ the file tree

XcodeprojDir == << "Tonic", ".", "xcodeproj" >>

\* Tonic.xcodeproj/project.pbxproj
OutputPath == << XcodeprojDir, << "project", ".", "pbxproj" >> >>

AllFiles == disk \cup (IF projFile # NoFile THEN { OutputPath } ELSE { })

IsBelow(d, p) == Len(p) > Len(d) /\ SubSeq(p, 1, Len(d)) = d

\* The names os.walk lists in directory d: its files and its directories.
filenames(d) == { p[Len(d) + 1] : p \in { q \in AllFiles : IsBelow(d, q) /\ Len(q) = Len(d) + 1 } }

dirnames(d) ==
    { p[Len(d) + 1] : p \in { q \in AllFiles : IsBelow(d, q) /\ Len(q) > Len(d) + 1 } }
    \cup (IF d = << >> /\ projDir THEN { XcodeprojDir } ELSE { })

\* The orders a directory listing can come in.
Orderings(S) ==
    { s \in [1..Cardinality(S) -> S] : \A i, j \in 1..Cardinality(S) : s[i] = s[j] => i = j }

\* The root os.walk('.') reports for directory d: '.' joined with its components.
RECURSIVE root_of(_)
root_of(d) == IF d = << >> THEN << "." >> ELSE join(root_of(SubSeq(d, 1, Len(d) - 1)), d[Len(d)])

SkipDirsNoBuild == { << "Sources" >>, XcodeprojDir, << ".", "swiftpm" >> }

SkipDirs == { << "Sources" >>, << ".", "build" >>, XcodeprojDir, << ".", "swiftpm" >> }

\* dirs[:] = [d for d in dirs if d not in [...]]
prune(dirs) == SelectSeq(dirs, LAMBDA d : d \notin SkipDirs)

\* f.endswith('.swift') and f != 'Package.swift'
is_source(f) == endswith_swift(f) /\ f # Package_swift

\* os.path.join(root, f).lstrip('./')
rel_path(root, f) == lstrip(join(root, f))

\* '\n'.join(output): the lines with a newline between each two.
join_lines(lines) ==
    IF lines = << >> THEN << >>
    ELSE [i \in 1..(2 * Len(lines) - 1) |-> IF i % 2 = 1 THEN lines[(i + 1) \div 2] ELSE "\n"]

Min(a, b) == IF a < b THEN a ELSE b

\* ------------------------------------------------------------------ the run

Init ==
    /\ disk \in { S \in SUBSET Universe : Cardinality(S) <= MaxFiles }
    /\ projDir = (\E p \in disk : IsBelow(<< XcodeprojDir >>, p))
    /\ projFile = NoFile
    /\ pc = "walk"
    /\ run = 1
    /\ stack = << << >> >>
    /\ swift_files = << >>
    /\ output = << >>
    /\ before = [dir |-> projDir, file |-> projFile]
    /\ first = NoFile

\* One iteration of "for root, dirs, files in os.walk('.')": the listing of the
\* next directory in some order, the pruning of dirs, the loop over files.
WalkDir ==
    /\ pc = "walk"
    /\ stack # << >>
    /\ LET top == Head(stack) IN
       \E dirs \in Orderings(dirnames(top)), files \in Orderings(filenames(top)) :
          LET kept == prune(dirs)
              found == SelectSeq(files, is_source)
          IN  /\ swift_files' = swift_files \o [i \in 1..Len(found) |-> rel_path(root_of(top), found[i])]
              /\ stack' = [i \in 1..Len(kept) |-> Append(top, kept[i])] \o Tail(stack)
    /\ UNCHANGED << disk, projDir, projFile, pc, run, output, before, first >>

\* The walk is over: swift_files.sort(), the identifiers, the list output.
SortAndBuild ==
    /\ pc = "walk"
    /\ stack = << >>
    /\ swift_files' = sort(swift_files)
    /\ output' = Manifest(swift_files')
    /\ pc' = "built"
    /\ UNCHANGED << disk, projDir, projFile, run, stack, before, first >>

\* os.makedirs('Tonic.xcodeproj', exist_ok=True)
Makedirs ==
    /\ pc = "built"
    /\ projDir' = TRUE
    /\ pc' = "made"
    /\ UNCHANGED << disk, projFile, run, stack, swift_files, output, before, first >>

\* os.makedirs raises: the directory is missing and cannot be created.
MakedirsFail ==
    /\ pc = "built"
    /\ ~projDir
    /\ pc' = "failed"
    /\ UNCHANGED << disk, projDir, projFile, run, stack, swift_files, output, before, first >>

\* open('Tonic.xcodeproj/project.pbxproj', 'w'): the file is created or truncated.
Open ==
    /\ pc = "made"
    /\ projFile' = << >>
    /\ pc' = "opened"
    /\ UNCHANGED << disk, projDir, run, stack, swift_files, output, before, first >>

\* open raises: the file cannot be created or opened for writing.
OpenFail ==
    /\ pc = "made"
    /\ pc' = "failed"
    /\ UNCHANGED << disk, projDir, projFile, run, stack, swift_files, output, before, first >>

\* f.write('\n'.join(output)) and the close of the with block
Write ==
    /\ pc = "opened"
    /\ projFile' = join_lines(output)
    /\ first' = IF run = 1 THEN projFile' ELSE first
    /\ pc' = "done"
    /\ UNCHANGED << disk, projDir, run, stack, swift_files, output, before >>

\* f.write or the close raises (the disk is full): a prefix of the text is in the file.
WriteFail ==
    /\ pc = "opened"
    /\ \E k \in 0..Min(MaxPartial, Len(join_lines(output)) - 1) :
          projFile' = SubSeq(join_lines(output), 1, k)
    /\ pc' = "failed"
    /\ UNCHANGED << disk, projDir, run, stack, swift_files, output, before, first >>

\* The tool is run again on the tree the first run left.
Rerun ==
    /\ pc = "done"
    /\ run = 1
    /\ run' = 2
    /\ pc' = "walk"
    /\ stack' = << << >> >>
    /\ swift_files' = << >>
    /\ output' = << >>
    /\ before' = [dir |-> projDir, file |-> projFile]
    /\ UNCHANGED << disk, projDir, projFile, first >>

Next ==
    \/ WalkDir
    \/ SortAndBuild
    \/ Makedirs
    \/ MakedirsFail
    \/ Open
    \/ OpenFail
    \/ Write
    \/ WriteFail
    \/ Rerun

Spec == Init /\ [][Next]_vars


\* ------------------------------------------------- reading a manifest back

\* The lines of a text written with join_lines: every other piece.
lines_of(text) == [i \in 1..((Len(text) + 1) \div 2) |-> text[2 * i - 1]]

Occurrences(lines, l) == Cardinality({ i \in 1..Len(lines) : lines[i] = l })

\* The index of the first line equal to l after index from, 0 when there is none.
FirstAfter(lines, from, l) ==
    LET at == { i \in (from + 1)..Len(lines) : lines[i] = l }
    IN  IF at = { } THEN 0 ELSE CHOOSE i \in at : \A j \in at : i <= j

\* The lines between "Begin name section" and "End name section".
SectionOf(lines, name) ==
    LET b == FirstAfter(lines, 0, "/* Begin " \o name \o " section */")
        e == FirstAfter(lines, b, "/* End " \o name \o " section */")
    IN  IF b = 0 \/ e = 0 THEN << "no such section" >> ELSE SubSeq(lines, b + 1, e - 1)

\* The entries of the list that `opener` opens in the object whose first line is
\* `header`, up to the line that closes the list.
ListOf(lines, header, opener) ==
    LET h == FirstAfter(lines, 0, header)
        o == FirstAfter(lines, h, opener)
        c == FirstAfter(lines, o, "\t\t\t);")
    IN  IF h = 0 \/ o = 0 \/ c = 0 THEN << "no such list" >> ELSE SubSeq(lines, o + 1, c - 1)

ChildrenOpen == "\t\t\tchildren = ("
FilesOpen == "\t\t\tfiles = ("

GroupHeader(id, name) == "\t\t" \o id \o " /* " \o name \o " */ = {"

ModelsChildren(lines) == ListOf(lines, GroupHeader(generate_uuid("models"), "Models"), ChildrenOpen)
ViewsChildren(lines) == ListOf(lines, GroupHeader(generate_uuid("views"), "Views"), ChildrenOpen)
UtilitiesChildren(lines) == ListOf(lines, GroupHeader(generate_uuid("utils"), "Utilities"), ChildrenOpen)
ServicesChildren(lines) == ListOf(lines, GroupHeader(generate_uuid("services"), "Services"), ChildrenOpen)
DesignChildren(lines) == ListOf(lines, GroupHeader(generate_uuid("design"), "Design"), ChildrenOpen)
TonicChildren(lines) == ListOf(lines, GroupHeader(generate_uuid("tonicgroup"), "Tonic"), ChildrenOpen)
SourcesFiles(lines) == ListOf(lines, GroupHeader(generate_uuid("sources"), "Sources"), FilesOpen)
ResourcesFiles(lines) == ListOf(lines, GroupHeader(generate_uuid("resources"), "Resources"), FilesOpen)
FrameworksFiles(lines) == ListOf(lines, GroupHeader(generate_uuid("frameworks"), "Frameworks"), FilesOpen)

\* The entries a manifest holds for the path f, written out from the two
\* identifiers of the path and its file name.
RefId(f) == generate_uuid("file_" \o Str(f))
BuildId(f) == generate_uuid("build_" \o Str(f))
NameOf(f) == Str(basename(f))
ChildEntry(f) == "\t\t\t\t" \o RefId(f) \o " /* " \o NameOf(f) \o " */,"
PhaseEntry(f) == "\t\t\t\t" \o BuildId(f) \o " /* " \o NameOf(f) \o " in Sources */,"
BuildEntry(f) ==
    "\t\t" \o BuildId(f) \o " /* " \o NameOf(f) \o " in Sources */ = {isa = PBXBuildFile; fileRef = "
    \o RefId(f) \o " /* " \o NameOf(f) \o " */; };"
RefEntry(f) ==
    "\t\t" \o RefId(f) \o " /* " \o NameOf(f)
    \o " */ = {isa = PBXFileReference; lastKnownFileType = sourcecode.swift; path = \""
    \o NameOf(f) \o "\"; sourceTree = \"<group>\"; };"

Listed(list, f) == \E i \in 1..Len(list) : list[i] = ChildEntry(f)

HasSegment(f, name) == contains(f, << "/", name, "/" >>)

Collected == { swift_files[i] : i \in 1..Len(swift_files) }

\* The manifest is assembled: the run is past the walk.
Built == pc \in { "built", "made", "opened", "done", "failed" }

\* The five named groups' children lists, in the order of the manifest.
NamedChildren(lines) ==
    << ModelsChildren(lines), ViewsChildren(lines), UtilitiesChildren(lines),
       ServicesChildren(lines), DesignChildren(lines) >>

\* ------------------------------------------------------------------ claims

\* C1. Determinism across runs: the second of two consecutive runs on the
\* unchanged tree, which sees the output file of the first, writes to
\* project.pbxproj exactly what the first run wrote, whatever the order in
\* which the walk listed directories and files in either run.
C1_Determinism == (run = 2 /\ pc = "done") => projFile = first

\* The second run has finished on a tree with two different source paths, one
\* of them beside the output directory of the first run.
C1_Witness ==
    /\ run = 2
    /\ pc = "done"
    /\ Len(swift_files) >= 2
    /\ swift_files[1] # swift_files[2]
    /\ first # NoFile
    /\ Cardinality(filenames(<< >>)) + Cardinality(dirnames(<< >>)) >= 3

\* C2. Group exclusivity: a collected file whose path holds the segment
\* /Models/ is listed in the Models group's children and in no other children
\* list, and every collected file is listed under at most one of the five
\* named groups.
C2_GroupExclusive ==
    Built =>
        \A f \in Collected :
            /\ HasSegment(f, "Models") =>
                  /\ Listed(ModelsChildren(output), f)
                  /\ ~Listed(ViewsChildren(output), f)
                  /\ ~Listed(UtilitiesChildren(output), f)
                  /\ ~Listed(ServicesChildren(output), f)
                  /\ ~Listed(DesignChildren(output), f)
                  /\ ~Listed(TonicChildren(output), f)
            /\ Cardinality({ g \in 1..5 : Listed(NamedChildren(output)[g], f) }) <= 1

\* C3. Collected paths are distinct: the sorted list of collected relative
\* paths holds no path twice, so no two files of the tree are collected under
\* the same path.
C3_DistinctPaths ==
    Built => \A i, j \in 1..Len(swift_files) : swift_files[i] = swift_files[j] => i = j

\* C4. All-or-nothing output: when a run has ended, by finishing or by
\* failing at any step, either the complete manifest text is in the output
\* file, or the output file and its directory are as they were before the run.
C4_AllOrNothing ==
    pc \in { "done", "failed" } =>
        \/ projFile = join_lines(output)
        \/ projFile = before.file /\ projDir = before.dir

\* C5. One entry pair per source path: every collected path has exactly one
\* file-reference entry, exactly one build-file entry, whose fileRef is the
\* identifier of that file-reference entry, and exactly one sources-build-phase
\* entry, which names that build-file entry; the sources build phase has as
\* many entries as there are collected paths.
C5_OnePairPerPath ==
    Built =>
        /\ \A f \in Collected :
              /\ Occurrences(SectionOf(output, "PBXFileReference"), RefEntry(f)) = 1
              /\ Occurrences(SectionOf(output, "PBXBuildFile"), BuildEntry(f)) = 1
              /\ Occurrences(SourcesFiles(output), PhaseEntry(f)) = 1
        /\ Len(SourcesFiles(output)) = Cardinality(Collected)

\* A direct child of the top-level source folder: Tonic/<file name>.
DirectChildOfTonic(f) ==
    /\ Len(split(f)) = 2
    /\ split(f)[1] = << "Tonic" >>
    /\ \A name \in { "Models", "Views", "Utilities", "Services", "Design" } : ~HasSegment(f, name)

\* C6. Top-level placement: a collected file that is a direct child of Tonic
\* and matches no group segment is listed exactly once in the Tonic group's
\* children and in none of the five named groups' children; past the five
\* group references, the Tonic group's children hold such files only.
C6_TopLevelPlacement ==
    Built =>
        /\ \A f \in Collected :
              DirectChildOfTonic(f) =>
                  /\ Occurrences(TonicChildren(output), ChildEntry(f)) = 1
                  /\ \A g \in 1..5 : ~Listed(NamedChildren(output)[g], f)
        /\ \A i \in 6..Len(TonicChildren(output)) :
              \E f \in Collected : DirectChildOfTonic(f) /\ TonicChildren(output)[i] = ChildEntry(f)

ExcludedNames == { << "Sources" >>, << ".", "build" >>, << "Tonic", ".", "xcodeproj" >>, << ".", "swiftpm" >> }

BeneathExcluded(p) == \E i \in 1..(Len(p) - 1) : p[i] \in ExcludedNames

\* The files of the tree the collector is to take: recognised source files
\* with no excluded directory above them.
Eligible ==
    { p \in AllFiles :
        /\ ~BeneathExcluded(p)
        /\ endswith_swift(p[Len(p)])
        /\ p[Len(p)] # << "Package", ".", "swift" >> }

\* The path a file of the tree is collected under.
CollectedAs(p) == rel_path(root_of(SubSeq(p, 1, Len(p) - 1)), p[Len(p)])

PathLeq(f, g) ==
    LET a == chars(f)
        b == chars(g)
    IN  \/ Len(a) <= Len(b) /\ SubSeq(b, 1, Len(a)) = a
        \/ \E k \in 1..Min(Len(a), Len(b)) :
              SubSeq(a, 1, k - 1) = SubSeq(b, 1, k - 1) /\ a[k] < b[k]

\* C8. Sorted build phase: from the moment the manifest is assembled the
\* collected list is in lexicographically non-decreasing order, and in the
\* manifest the run writes the entries of the sources build phase are those of
\* the collected paths in that order; the build-file and file-reference
\* entries, written from the same list, come in that order too.
C8_SortedPhase ==
    /\ Built => \A i, j \in 1..Len(swift_files) : i < j => PathLeq(swift_files[i], swift_files[j])
    /\ pc = "done" =>
          LET manifest == lines_of(projFile)
              builds == SectionOf(manifest, "PBXBuildFile")
              refs == SectionOf(manifest, "PBXFileReference")
              phase == SourcesFiles(manifest)
          IN  /\ Len(phase) = Len(swift_files)
              /\ \A i \in 1..Len(swift_files) :
                    /\ phase[i] = PhaseEntry(swift_files[i])
                    /\ builds[i] = BuildEntry(swift_files[i])
                    /\ refs[i + 1] = RefEntry(swift_files[i])

\* A manifest was written for three different paths.
C8_Witness == pc = "done" /\ Cardinality(Collected) >= 3 /\ Len(SourcesFiles(lines_of(projFile))) >= 3

SectionNames ==
    { "PBXBuildFile", "PBXFileReference", "PBXFrameworksBuildPhase", "PBXGroup",
      "PBXNativeTarget", "PBXProject", "PBXResourcesBuildPhase", "PBXSourcesBuildPhase",
      "XCBuildConfiguration", "XCConfigurationList" }

\* The first line of every object the manifest always holds.
FixedObjects ==
    { "\t\t" \o generate_uuid("app")
          \o " /* Tonic.app */ = {isa = PBXFileReference; explicitFileType = wrapper.application; includeInIndex = 0; path = Tonic.app; sourceTree = BUILT_PRODUCTS_DIR; };",
      "\t\t" \o generate_uuid("mainGroup") \o " = {",
      GroupHeader(generate_uuid("products"), "Products"),
      GroupHeader(generate_uuid("tonicgroup"), "Tonic"),
      GroupHeader(generate_uuid("models"), "Models"),
      GroupHeader(generate_uuid("views"), "Views"),
      GroupHeader(generate_uuid("utils"), "Utilities"),
      GroupHeader(generate_uuid("services"), "Services"),
      GroupHeader(generate_uuid("design"), "Design"),
      GroupHeader(generate_uuid("frameworks"), "Frameworks"),
      GroupHeader(generate_uuid("resources"), "Resources"),
      GroupHeader(generate_uuid("sources"), "Sources"),
      GroupHeader(generate_uuid("target"), "Tonic"),
      GroupHeader(generate_uuid("project"), "Project object"),
      GroupHeader(generate_uuid("debug_proj"), "Debug"),
      GroupHeader(generate_uuid("release_proj"), "Release"),
      GroupHeader(generate_uuid("debug_target"), "Debug"),
      GroupHeader(generate_uuid("release_target"), "Release"),
      GroupHeader(generate_uuid("configlist"), "Build configuration list for PBXProject \"Tonic\""),
      GroupHeader(generate_uuid("targetconfiglist"), "Build configuration list for PBXNativeTarget \"Tonic\"") }

\* C9. Empty tree: with no recognised source file the run goes on to write the
\* manifest; the file then holds every section and every fixed object once
\* and ends with the rootObject reference to the project, the sources,
\* resources and frameworks build phases list no files, the five named groups
\* have no children, the Tonic group holds its five groups only, and the
\* build-file section has no entries.
C9_EmptyTree ==
    /\ (pc = "walk" /\ stack = << >> /\ swift_files = << >>) => ENABLED SortAndBuild
    /\ (pc = "done" /\ swift_files = << >>) =>
          LET lines == lines_of(projFile)
          IN  /\ \A name \in SectionNames :
                    /\ Occurrences(lines, "/* Begin " \o name \o " section */") = 1
                    /\ Occurrences(lines, "/* End " \o name \o " section */") = 1
                    /\ FirstAfter(lines, 0, "/* Begin " \o name \o " section */")
                          < FirstAfter(lines, 0, "/* End " \o name \o " section */")
              /\ \A object \in FixedObjects : Occurrences(lines, object) = 1
              /\ lines[Len(lines) - 1] = "\trootObject = " \o generate_uuid("project") \o " /* Project object */;"
              /\ lines[Len(lines)] = "}"
              /\ SectionOf(lines, "PBXBuildFile") = << >>
              /\ Len(SectionOf(lines, "PBXFileReference")) = 1
              /\ SourcesFiles(lines) = << >>
              /\ ResourcesFiles(lines) = << >>
              /\ FrameworksFiles(lines) = << >>
              /\ \A g \in 1..5 : NamedChildren(lines)[g] = << >>
              /\ Len(TonicChildren(lines)) = 5

\* A run has written the manifest of a tree that holds files, none of them a
\* recognised source file outside the excluded directories.
C9_Witness == pc = "done" /\ swift_files = << >> /\ Cardinality(disk) >= 2 /\ projFile # NoFile

RoleSalts ==
    { "project", "mainGroup", "target", "products", "sources", "resources", "frameworks",
      "app", "configlist", "targetconfiglist", "tonicgroup", "models", "views", "utils",
      "services", "design", "debug_proj", "release_proj", "debug_target", "release_target" }

RoleIds == { generate_uuid(s) : s \in RoleSalts }

ConfigurationEntry(id, name) == "\t\t" \o id \o " /* " \o name \o " */ = {"
ConfigurationRef(id, name) == "\t\t\t\t" \o id \o " /* " \o name \o " */,"

\* The identifiers that key an entry of the XCBuildConfiguration section.
ConfigDeclared(lines) ==
    LET section == SectionOf(lines, "XCBuildConfiguration")
    IN  { id \in RoleIds : \E name \in { "Debug", "Release" } :
            Occurrences(section, ConfigurationEntry(id, name)) > 0 }

\* The identifiers a configuration list names.
ConfigReferenced(lines) ==
    LET section == SectionOf(lines, "XCConfigurationList")
    IN  { id \in RoleIds : \E name \in { "Debug", "Release" } :
            Occurrences(section, ConfigurationRef(id, name)) > 0 }

ConfigIdentifiers(lines) == ConfigDeclared(lines) \cup ConfigReferenced(lines)

BuildConfigurationsOpen == "\t\t\tbuildConfigurations = ("

\* C10, as stated. Configuration-variant identifier count: one salt per
\* build-configuration variant at each of the two scopes gives eight
\* configuration-variant identifiers in the manifest the run writes.
C10_EightIdentifiers == pc = "done" => Cardinality(ConfigIdentifiers(lines_of(projFile))) = 8

\* C10, amended. One salt per build-configuration variant at each of the two
\* scopes gives four configuration-variant identifiers; each is in the
\* written manifest twice, once as the key of its XCBuildConfiguration entry and once
\* in the configuration list of its scope: eight occurrences of four
\* identifiers.
C10_FourIdentifiersTwice ==
    pc = "done" =>
        LET manifest == lines_of(projFile)
            variants == { << "debug_proj", "Debug" >>, << "release_proj", "Release" >>,
                          << "debug_target", "Debug" >>, << "release_target", "Release" >> }
            ids == { generate_uuid(v[1]) : v \in variants }
        IN  /\ Cardinality(ids) = 4
            /\ ConfigDeclared(manifest) = ids
            /\ ConfigReferenced(manifest) = ids
            /\ \A v \in variants :
                  /\ Occurrences(manifest, ConfigurationEntry(generate_uuid(v[1]), v[2])) = 1
                  /\ Occurrences(manifest, ConfigurationRef(generate_uuid(v[1]), v[2])) = 1
            /\ ListOf(manifest, GroupHeader(generate_uuid("configlist"),
                                            "Build configuration list for PBXProject \"Tonic\""),
                      BuildConfigurationsOpen)
                  = << ConfigurationRef(generate_uuid("debug_proj"), "Debug"),
                       ConfigurationRef(generate_uuid("release_proj"), "Release") >>
            /\ ListOf(manifest, GroupHeader(generate_uuid("targetconfiglist"),
                                            "Build configuration list for PBXNativeTarget \"Tonic\""),
                      BuildConfigurationsOpen)
                  = << ConfigurationRef(generate_uuid("debug_target"), "Debug"),
                       ConfigurationRef(generate_uuid("release_target"), "Release") >>

\* A run has written a manifest, and four configuration-variant identifiers are in the file.
C10_Witness == pc = "done" /\ Cardinality(ConfigIdentifiers(lines_of(projFile))) = 4

\* The comments the manifest puts after an identifier.
ObjectComments ==
    { "Tonic", "Products", "Models", "Views", "Utilities", "Services", "Design",
      "Sources", "Frameworks", "Resources", "Project object", "Debug", "Release", "Tonic.app",
      "Build configuration list for PBXProject \"Tonic\"",
      "Build configuration list for PBXNativeTarget \"Tonic\"" }

\* The lines that declare an object under the key id: a commented or bare
\* opening line, the product reference, or the file-reference or build-file
\* entry of a collected path.
DeclarationForms(id) ==
    { GroupHeader(id, c) : c \in ObjectComments }
    \cup { "\t\t" \o id \o " = {" }
    \cup { "\t\t" \o id
           \o " /* Tonic.app */ = {isa = PBXFileReference; explicitFileType = wrapper.application; includeInIndex = 0; path = Tonic.app; sourceTree = BUILT_PRODUCTS_DIR; };" }
    \cup { RefEntry(f) : f \in { g \in Collected : RefId(g) = id } }
    \cup { BuildEntry(f) : f \in { g \in Collected : BuildId(g) = id } }

\* The lines that use id as a reference: an entry of a children, files,
\* buildPhases, buildConfigurations or targets list, a fileRef, and the single
\* references of the target, the project and the document.
ReferenceForms(id) ==
    { "\t\t\t\t" \o id \o " /* " \o c \o " */," : c \in ObjectComments }
    \cup { ChildEntry(f) : f \in { g \in Collected : RefId(g) = id } }
    \cup { PhaseEntry(f) : f \in { g \in Collected : BuildId(g) = id } }
    \cup { BuildEntry(f) : f \in { g \in Collected : RefId(g) = id } }
    \cup { "\t\t\tbuildConfigurationList = " \o id \o " /* " \o c \o " */;" : c \in ObjectComments }
    \cup { "\t\t\tmainGroup = " \o id \o ";",
           "\t\t\tproductRefGroup = " \o id \o ";",
           "\t\t\tproductReference = " \o id \o " /* Tonic.app */;",
           "\t\t\t\t\t" \o id \o " = {",
           "\trootObject = " \o id \o " /* Project object */;" }

\* How many lines of the manifest declare an object under the key id.
DeclarationsOf(lines, id) ==
    LET forms == DeclarationForms(id)
    IN  Cardinality({ i \in 1..Len(lines) : lines[i] \in forms })

IsReferenced(lines, id) ==
    LET forms == ReferenceForms(id)
    IN  \E i \in 1..Len(lines) : lines[i] \in forms

\* The identifiers a manifest of the collected paths can hold.
ManifestIds == RoleIds \cup { RefId(f) : f \in Collected } \cup { BuildId(f) : f \in Collected }

\* The lines of the objects section: after "objects = {", before its closing line.
ObjectLines(lines) ==
    LET b == FirstAfter(lines, 0, "\tobjects = {")
        e == FirstAfter(lines, b, "\t};")
    IN  IF b = 0 \/ e = 0 THEN << "no objects section" >> ELSE SubSeq(lines, b + 1, e - 1)

\* C11. Referential integrity: the salts of the manifest having different
\* identifiers, every identifier the written manifest uses as a reference is
\* declared as an object key exactly once in the objects section, and no
\* object key is declared twice.
C11_ReferentialIntegrity ==
    pc = "done" =>
        LET manifest == lines_of(projFile)
            objects == ObjectLines(manifest)
        IN  \A id \in ManifestIds :
                LET declared == DeclarationsOf(objects, id)
                IN  /\ declared <= 1
                    /\ IsReferenced(manifest, id) => declared = 1

====
